---- MODULE Spec2Model ----
(***************************************************************************)
(* The scraping pipelines of scraper/scrape_fiber.py, scraper/scrape_tv.py *)
(* and scraper/scrape_mobil.py: the provider aggregators, the unit         *)
(* normalizers and the validation of the fiber pipeline, the change        *)
(* detector of the TV and mobile pipelines, and the snapshot files.        *)
(*                                                                         *)
(* A text is a sequence of chunks.  A chunk is one character, or a word    *)
(* that contains no "-" and is never split (a provider or package name);   *)
(* concatenating texts is concatenating the sequences.  A mapping (a       *)
(* Python dict) is a function from its keys; a key the mapping lacks is    *)
(* outside its DOMAIN.                                                     *)
(***************************************************************************)
EXTENDS Integers, Sequences, FiniteSets, TLC

VARIABLES
    pipeline,             \* which script runs: "fiber", "tv" or "mobil"
    scraper_type,         \* SCRAPER_TYPE of the environment
    force_update,         \* FORCE_UPDATE of the environment
    disk,                 \* the snapshot file (data/fiber.json, ../data/tv.json, ../data/mobil.json)
    disk_copy,            \* scraper/data/fiber.json, the second file of the fiber script
    pc,                   \* where main is
    existing_data,        \* main: what load_existing_data returned
    all_plans,            \* the aggregator's accumulating result (new_data in main)
    idx,                  \* the aggregator's position in the provider list
    successful_providers, \* the aggregator's counters (TV and mobile)
    failed_providers,
    last,                 \* what the latest loop iteration did
    invoked,              \* the names of the providers whose producer was called, in order
    changes,              \* main: what detect_changes returned
    saves,                \* how many times main called the save function
    clock,                \* datetime.now()
    result,               \* how main ended: "running", "returned" or "raised"
    rejected,             \* whether the fiber validation has rejected a plan in this run
    fn,                   \* the normalizer that is called on its own
    arg,                  \* its argument, as the pieces the text is made of
    ret,                  \* what it returned
    packages,             \* the aggregator: what the producer of this iteration
                          \* returned (plans in the fiber and mobile scripts), <<>> when it
                          \* returned nothing or was not called
    capacity              \* the environment: how many records the sites of this
                          \* run hold between them

vars == <<pipeline, scraper_type, force_update, disk, disk_copy, pc, existing_data,
          all_plans, idx, successful_providers, failed_providers, last, invoked,
          changes, saves, clock, result, rejected, fn, arg, ret, packages, capacity>>

(***************************************************************************)
(* Bounds of the model.                                                    *)
(***************************************************************************)
\* The longest record sequence the producers of one run return in total.
MaxPlans == 2
\* The longest snapshot the change detector is applied to on its own.
MaxSnapshot == 2

(***************************************************************************)
(* Python helpers.                                                         *)
(***************************************************************************)
\* dict.get(k, default)
Get(d, k, default) == IF k \in DOMAIN d THEN d[k] ELSE default

\* d[k] = v on a dict: the key is added, or its value replaced
SetItem(d, k, v) == [x \in DOMAIN d \cup {k} |-> IF x = k THEN v ELSE d[x]]

\* old.get(k) != new.get(k): a missing key reads as None, which equals only None
GetDiffers(a, b, k) ==
    IF k \in DOMAIN a /\ k \in DOMAIN b THEN a[k] # b[k]
    ELSE (k \in DOMAIN a) # (k \in DOMAIN b)

DigitChars == <<"0", "1", "2", "3", "4", "5", "6", "7", "8", "9">>

RECURSIVE IntToStr(_)
\* str(n) of a non-negative int: its decimal digits
IntToStr(n) ==
    IF n < 10 THEN <<DigitChars[n + 1]>>
    ELSE IntToStr(n \div 10) \o <<DigitChars[(n % 10) + 1]>>

(***************************************************************************)
(* The change detector of the TV and mobile scripts.                       *)
(***************************************************************************)
\* An f-string field: a text as it is, '' for a missing key
FmtText(d, k) == Get(d, k, <<>>)

\* An f-string field: an int by str(), '' for a missing key
FmtInt(d, k) == IF k \in DOMAIN d THEN IntToStr(d[k]) ELSE <<>>

\* A key of provider and discriminant alone
lookup_key_without_price(p, rec) ==
    FmtText(rec, "udbyder") \o <<"-">>
      \o (IF p = "tv" THEN FmtText(rec, "pakke_navn") ELSE FmtInt(rec, "data_GB"))

\* The key of the lookup dictionaries: f"{udbyder}-{pakke_navn}-{pris_mdr}" in
\* the TV script, f"{udbyder}-{data_GB}-{pris_mdr}" in the mobile script
lookup_key(p, rec) ==
    FmtText(rec, "udbyder") \o <<"-">>
      \o (IF p = "tv" THEN FmtText(rec, "pakke_navn") ELSE FmtInt(rec, "data_GB"))
      \o <<"-">> \o FmtInt(rec, "pris_mdr")

\* {key: rec for rec in data}: a later record replaces an earlier one of its key
build_lookup(p, data) ==
    LET ks == {lookup_key(p, data[i]) : i \in 1..Len(data)}
        at(k) == CHOOSE i \in 1..Len(data) :
                    /\ lookup_key(p, data[i]) = k
                    /\ \A j \in (i + 1)..Len(data) : lookup_key(p, data[j]) # k
    IN [k \in ks |-> data[at(k)]]

RECURSIVE lookup_order(_, _)
\* The order in which a lookup dictionary is iterated: each key where it was
\* first inserted
lookup_order(p, data) ==
    IF data = <<>> THEN <<>>
    ELSE LET front == lookup_order(p, SubSeq(data, 1, Len(data) - 1))
             k == lookup_key(p, data[Len(data)])
         IN IF \E i \in 1..Len(front) : front[i] = k THEN front ELSE Append(front, k)

\* changes = {...: 0}
NoChanges == [new |-> 0, updated |-> 0, removed |-> 0, price_changes |-> 0,
              promotion_changes |-> 0]

\* A comparison of the whole records: any field that differs is an update
compare_records_deep(ch, old_rec, new_rec) ==
    IF old_rec # new_rec THEN [ch EXCEPT !.updated = @ + 1] ELSE ch

\* One iteration of the "Find updated" loop, on a key that both lookups hold
compare_records(ch, old_rec, new_rec) ==
    LET price == GetDiffers(old_rec, new_rec, "pris_mdr")
        promo == GetDiffers(old_rec, new_rec, "kampagne")
        c1 == IF price
              THEN [ch EXCEPT !.price_changes = @ + 1, !.updated = @ + 1]
              ELSE ch
    IN IF promo
       THEN [c1 EXCEPT !.promotion_changes = @ + 1,
                       !.updated = IF c1.updated = 0 THEN @ + 1 ELSE @]
       ELSE c1

RECURSIVE find_updated(_, _, _, _)
\* The "Find updated" loop over the keys of new_lookup that are still to visit
find_updated(ch, keys, old_lookup, new_lookup) ==
    IF keys = <<>> THEN ch
    ELSE LET k == Head(keys)
             c == IF k \in DOMAIN old_lookup
                  THEN compare_records(ch, old_lookup[k], new_lookup[k])
                  ELSE ch
         IN find_updated(c, Tail(keys), old_lookup, new_lookup)

\* A detector that counts the records of new_data, not the keys of new_lookup
detect_changes_per_record(p, old_data, new_data) ==
    LET old_lookup == build_lookup(p, old_data)
        new_lookup == build_lookup(p, new_data)
        c0 == [NoChanges EXCEPT
                 !.new = Cardinality({i \in 1..Len(new_data) :
                                        lookup_key(p, new_data[i]) \notin DOMAIN old_lookup}),
                 !.removed = Cardinality(DOMAIN old_lookup \ DOMAIN new_lookup)]
    IN find_updated(c0, lookup_order(p, new_data), old_lookup, new_lookup)

\* A detector without the "Find removed" loop
detect_changes_no_removed(p, old_data, new_data) ==
    LET old_lookup == build_lookup(p, old_data)
        new_lookup == build_lookup(p, new_data)
        c0 == [NoChanges EXCEPT
                 !.new = Cardinality(DOMAIN new_lookup \ DOMAIN old_lookup)]
    IN find_updated(c0, lookup_order(p, new_data), old_lookup, new_lookup)

\* detect_changes(old_data, new_data)
detect_changes(p, old_data, new_data) ==
    LET old_lookup == build_lookup(p, old_data)
        new_lookup == build_lookup(p, new_data)
        c0 == [NoChanges EXCEPT
                 !.new = Cardinality(DOMAIN new_lookup \ DOMAIN old_lookup),
                 !.removed = Cardinality(DOMAIN old_lookup \ DOMAIN new_lookup)]
    IN find_updated(c0, lookup_order(p, new_data), old_lookup, new_lookup)

\* any(changes.values())
any_changes(ch) ==
    \/ ch.new # 0
    \/ ch.updated # 0
    \/ ch.removed # 0
    \/ ch.price_changes # 0
    \/ ch.promotion_changes # 0

(***************************************************************************)
(* Python text operations, on texts whose chunks are single characters.    *)
(***************************************************************************)
IsDigit(c) == \E i \in 1..10 : DigitChars[i] = c

DigitValue(c) == (CHOOSE i \in 1..10 : DigitChars[i] = c) - 1

RECURSIVE Pow10(_)
Pow10(n) == IF n <= 0 THEN 1 ELSE 10 * Pow10(n - 1)

RECURSIVE StrToInt(_)
\* int(s) of a text of digits
StrToInt(s) ==
    IF s = <<>> THEN 0 ELSE 10 * StrToInt(SubSeq(s, 1, Len(s) - 1)) + DigitValue(s[Len(s)])

AllDigits(s) == \A i \in 1..Len(s) : IsDigit(s[i])

UpperLetters == <<"A", "B", "D", "E", "G", "I", "K", "M", "N", "R", "S", "T", "Y", "Å">>

LowerLetters == <<"a", "b", "d", "e", "g", "i", "k", "m", "n", "r", "s", "t", "y", "å">>

\* str.lower(), on the letters of the model's alphabet
LowerChar(c) ==
    IF \E i \in 1..Len(UpperLetters) : UpperLetters[i] = c
    THEN LowerLetters[CHOOSE i \in 1..Len(UpperLetters) : UpperLetters[i] = c]
    ELSE c

Lower(s) == [i \in 1..Len(s) |-> LowerChar(s[i])]

\* sub in s
Contains(s, sub) ==
    \E i \in 1..(Len(s) - Len(sub) + 1) : SubSeq(s, i, i + Len(sub) - 1) = sub

RECURSIVE Replace(_, _, _)
\* s.replace(old, new): every occurrence, found left to right, none overlapping
Replace(s, old, new) ==
    IF Len(s) < Len(old) THEN s
    ELSE IF SubSeq(s, 1, Len(old)) = old
         THEN new \o Replace(SubSeq(s, Len(old) + 1, Len(s)), old, new)
         ELSE <<Head(s)>> \o Replace(Tail(s), old, new)

RECURSIVE DigitRun(_)
\* The longest prefix of s made of digits
DigitRun(s) ==
    IF s # <<>> /\ IsDigit(Head(s)) THEN <<Head(s)>> \o DigitRun(Tail(s)) ELSE <<>>

RECURSIVE FirstNumber(_)
\* re.findall(r'\d+', s): its first match, <<>> when there is none
FirstNumber(s) ==
    IF s = <<>> THEN <<>>
    ELSE IF IsDigit(Head(s)) THEN DigitRun(s) ELSE FirstNumber(Tail(s))

RECURSIVE FirstDecimal(_)
\* re.findall(r'\d+\.?\d*', s): its first match, <<>> when there is none
FirstDecimal(s) ==
    IF s = <<>> THEN <<>>
    ELSE IF IsDigit(Head(s))
         THEN LET whole == DigitRun(s)
                  rest == SubSeq(s, Len(whole) + 1, Len(s))
              IN IF rest # <<>> /\ Head(rest) = "."
                 THEN whole \o <<".">> \o DigitRun(Tail(rest))
                 ELSE whole
         ELSE FirstDecimal(Tail(s))

\* The failure of a conversion: what a try block catches
Failed == [ok |-> FALSE, val |-> 0]

\* int(float(s) * 10^scale) for scale >= 0: sign, digits, a point, an exponent.
\* The quotient is taken on the decimal value (truncated toward zero); inf and
\* nan, on which int() raises, and anything float() rejects, fail.
IntOfFloat(s, scale) ==
    LET signed == s # <<>> /\ Head(s) \in {"-", "+"}
        neg == s # <<>> /\ Head(s) = "-"
        body == IF signed THEN Tail(s) ELSE s
        epos == {i \in 1..Len(body) : body[i] \in {"e", "E"}}
        mant == IF epos = {} THEN body
                ELSE SubSeq(body, 1, (CHOOSE i \in epos : \A j \in epos : i <= j) - 1)
        expo == IF epos = {} THEN <<>> ELSE SubSeq(body, Len(mant) + 2, Len(body))
        esigned == expo # <<>> /\ Head(expo) \in {"-", "+"}
        eneg == expo # <<>> /\ Head(expo) = "-"
        edig == IF esigned THEN Tail(expo) ELSE expo
        whole == DigitRun(mant)
        after == SubSeq(mant, Len(whole) + 1, Len(mant))
        frac == IF after # <<>> /\ Head(after) = "." THEN Tail(after) ELSE <<>>
        wellformed ==
            /\ AllDigits(frac)
            /\ after = <<>> \/ Head(after) = "."
            /\ whole # <<>> \/ frac # <<>>
            /\ epos = {} \/ (edig # <<>> /\ AllDigits(edig))
        e == IF eneg THEN 0 - StrToInt(edig) ELSE StrToInt(edig)
        shift == e + scale - Len(frac)
        n == StrToInt(whole \o frac)
        mag == IF shift >= 0 THEN n * Pow10(shift) ELSE n \div Pow10(0 - shift)
    IN IF wellformed THEN [ok |-> TRUE, val |-> IF neg THEN 0 - mag ELSE mag]
       ELSE Failed

(***************************************************************************)
(* The unit normalizers of the fiber script.                               *)
(***************************************************************************)
\* A normalize_speed that does not lower the text
normalize_speed_cased(speed_str) ==
    LET s == Replace(speed_str, <<" ">>, <<>>)
        giga == IntOfFloat(Replace(Replace(Replace(s, <<"g", "b", "i", "t">>, <<>>),
                                           <<"g", "b">>, <<>>), <<"/", "s">>, <<>>), 3)
        mega == IntOfFloat(Replace(Replace(Replace(s, <<"m", "b", "i", "t">>, <<>>),
                                           <<"m", "b">>, <<>>), <<"/", "s">>, <<>>), 0)
    IN IF speed_str = <<>> THEN 0
       ELSE IF Contains(s, <<"g", "b">>) /\ giga.ok THEN giga.val
       ELSE IF Contains(s, <<"m", "b">>) /\ mega.ok THEN mega.val
       ELSE StrToInt(FirstNumber(s))

\* normalize_speed(speed_str)
normalize_speed(speed_str) ==
    LET s == Replace(Lower(speed_str), <<" ">>, <<>>)
        giga == IntOfFloat(Replace(Replace(Replace(s, <<"g", "b", "i", "t">>, <<>>),
                                           <<"g", "b">>, <<>>), <<"/", "s">>, <<>>), 3)
        mega == IntOfFloat(Replace(Replace(Replace(s, <<"m", "b", "i", "t">>, <<>>),
                                           <<"m", "b">>, <<>>), <<"/", "s">>, <<>>), 0)
    IN IF speed_str = <<>> THEN 0
       ELSE IF Contains(s, <<"g", "b">>) /\ giga.ok THEN giga.val
       ELSE IF Contains(s, <<"m", "b">>) /\ mega.ok THEN mega.val
       ELSE StrToInt(FirstNumber(s))

\* A normalize_price that rounds to the nearest integer
normalize_price_rounded(price_str) ==
    LET s == Replace(Replace(Replace(Replace(price_str, <<" ">>, <<>>),
                                     <<"k", "r">>, <<>>), <<"d", "k", "k">>, <<>>),
                     <<",">>, <<".">>)
        m == IntOfFloat(FirstDecimal(s), 1)
    IN IF price_str = <<>> \/ ~m.ok THEN 0 ELSE (m.val + 5) \div 10

\* normalize_price(price_str)
normalize_price(price_str) ==
    LET s == Replace(Replace(Replace(Replace(price_str, <<" ">>, <<>>),
                                     <<"k", "r">>, <<>>), <<"d", "k", "k">>, <<>>),
                     <<",">>, <<".">>)
        m == IntOfFloat(FirstDecimal(s), 0)
    IN IF price_str = <<>> \/ ~m.ok THEN 0 ELSE m.val

\* A normalize_contract_length that reads a number without a unit as years
normalize_contract_length_bare_years(contract_str) ==
    LET s == Replace(Lower(contract_str), <<" ">>, <<>>)
        number == FirstNumber(s)
        months == Contains(s, <<"m", "å", "n", "e", "d">>) \/ Contains(s, <<"m", "d", "r">>)
    IN IF contract_str = <<>> \/ number = <<>> THEN 0
       ELSE IF months THEN StrToInt(number)
       ELSE StrToInt(number) * 12

\* A normalize_contract_length that looks for years before months
normalize_contract_length_years_first(contract_str) ==
    LET s == Replace(Lower(contract_str), <<" ">>, <<>>)
        number == FirstNumber(s)
        months == Contains(s, <<"m", "å", "n", "e", "d">>) \/ Contains(s, <<"m", "d", "r">>)
        years == Contains(s, <<"å", "r">>) \/ Contains(s, <<"y", "e", "a", "r">>)
    IN IF contract_str = <<>> \/ number = <<>> THEN 0
       ELSE IF years THEN StrToInt(number) * 12
       ELSE IF months THEN StrToInt(number)
       ELSE StrToInt(number)

\* normalize_contract_length(contract_str)
normalize_contract_length(contract_str) ==
    LET s == Replace(Lower(contract_str), <<" ">>, <<>>)
        number == FirstNumber(s)
        months == Contains(s, <<"m", "å", "n", "e", "d">>) \/ Contains(s, <<"m", "d", "r">>)
        years == Contains(s, <<"å", "r">>) \/ Contains(s, <<"y", "e", "a", "r">>)
    IN IF contract_str = <<>> \/ number = <<>> THEN 0
       ELSE IF months THEN StrToInt(number)
       ELSE IF years THEN StrToInt(number) * 12
       ELSE StrToInt(number)

(***************************************************************************)
(* The argument of a normalizer: a text made of a sign, the digits before  *)
(* and after the decimal mark, a gap, a unit, "/s", and further text.  An  *)
(* empty text also stands for an absent value (None; plan.get defaults to  *)
(* the empty text): the normalizers test it with "if not ...".             *)
(***************************************************************************)
ArgText(a) == a.sign \o a.whole \o a.frac \o a.gap \o a.unit \o a.per \o a.tail

\* A text that is no number with a unit
Literal(t) ==
    [sign |-> <<>>, whole |-> <<>>, frac |-> <<>>, gap |-> <<>>, unit |-> <<>>,
     per |-> <<>>, tail |-> t]

\* The empty or absent argument
NoArg == Literal(<<>>)

(***************************************************************************)
(* The provider configuration.  A descriptor's producer is the             *)
(* environment: what it returns or raises is chosen by the actions below.  *)
(***************************************************************************)
Provider(n, e) == [name |-> n, enabled |-> e]

PROVIDERS ==
    << Provider(<<"Hiper">>, TRUE), Provider(<<"YouSee">>, TRUE),
       Provider(<<"Telia">>, TRUE), Provider(<<"Stofa">>, TRUE),
       Provider(<<"Telenor">>, TRUE), Provider(<<"Waoo">>, TRUE),
       Provider(<<"Kviknet">>, TRUE), Provider(<<"CBB">>, TRUE),
       Provider(<<"Altibox">>, FALSE), Provider(<<"Fibia">>, FALSE),
       Provider(<<"Norlys">>, TRUE), Provider(<<"Energi Fyn">>, TRUE),
       Provider(<<"SEAS", "-", "NVE">>, TRUE) >>

TV_PROVIDERS ==
    << Provider(<<"YouSee">>, TRUE), Provider(<<"Waoo">>, TRUE),
       Provider(<<"Stofa">>, TRUE), Provider(<<"Boxer">>, TRUE),
       Provider(<<"Norlys">>, TRUE), Provider(<<"Telia TV">>, TRUE),
       Provider(<<"Allente">>, TRUE), Provider(<<"TDC">>, TRUE),
       Provider(<<"Telenor">>, TRUE), Provider(<<"Altibox">>, TRUE),
       Provider(<<"Kviknet">>, TRUE), Provider(<<"CBB">>, TRUE),
       Provider(<<"Hiper">>, TRUE), Provider(<<"Fastspeed">>, TRUE),
       Provider(<<"Ewii">>, TRUE) >>

MOBILE_PROVIDERS ==
    << Provider(<<"Telia">>, TRUE), Provider(<<"Telenor">>, TRUE),
       Provider(<<"YouSee">>, TRUE), Provider(<<"Oister">>, TRUE),
       Provider(<<"Lebara">>, TRUE), Provider(<<"Greentel">>, TRUE),
       Provider(<<"Hallo Mobil">>, TRUE), Provider(<<"CBB">>, TRUE),
       Provider(<<"Stofa">>, TRUE), Provider(<<"Waoo">>, TRUE),
       Provider(<<"Norlys">>, TRUE), Provider(<<"Boxer">>, TRUE),
       Provider(<<"Callme">>, TRUE), Provider(<<"Lycamobile">>, TRUE),
       Provider(<<"Gomore">>, TRUE) >>

\* The provider list the running script iterates
Providers(p) ==
    IF p = "fiber" THEN PROVIDERS ELSE IF p = "tv" THEN TV_PROVIDERS ELSE MOBILE_PROVIDERS

\* The key providers of light mode
LightProviders(p) ==
    IF p = "tv"
    THEN {<<"YouSee">>, <<"Waoo">>, <<"Stofa">>, <<"Boxer">>, <<"Norlys">>}
    ELSE {<<"Telia">>, <<"Telenor">>, <<"YouSee">>, <<"Oister">>, <<"Lebara">>}

(***************************************************************************)
(* What the producers return: candidate records.                           *)
(***************************************************************************)
\* A name a producer reports that is not the configured one
OtherName == <<"Andet">>

\* TV packages as the TV producers build them: a complete one, and one whose
\* price text held no 'kr' (pris_mdr stays 0) and that has no channel count
TvCandidates(n) ==
    { [udbyder |-> n, pakke_navn |-> <<"Basis">>, kanaler |-> 40, pris_mdr |-> 399,
       kampagne |-> <<>>],
      [udbyder |-> OtherName, pakke_navn |-> <<"Sport">>, pris_mdr |-> 0,
       kampagne |-> <<"Gratis">>] }

\* Mobile plans as the mobile producers build them
MobileCandidates(n) ==
    { [udbyder |-> n, data_GB |-> 20, pris_mdr |-> 89, kampagne |-> <<>>],
      [udbyder |-> OtherName, data_GB |-> 0, pris_mdr |-> 0, kampagne |-> <<"Gratis">>] }

\* Fiber plans as the fiber producers build them (numbers, which str() turns into
\* digits) and as texts; the last two lack a usable price or speed
FiberCandidates(n) ==
    { [udbyder |-> n, hastighed_mbit |-> <<"1", "0", "0", "0">>,
       pris_mdr |-> <<"2", "9", "9">>, bindingstid_mdr |-> <<"1", "2">>,
       kampagne |-> <<"Gratis">>],
      [udbyder |-> OtherName, hastighed_mbit |-> <<"1", " ", "G", "b", "i", "t", "/", "s">>,
       pris_mdr |-> <<"1", "9", "9", ",", "5", "0">>,
       bindingstid_mdr |-> <<"2", " ", "å", "r">>],
      [hastighed_mbit |-> <<"5", "0", "0", " ", "m", "b">>, pris_mdr |-> <<"k", "r">>],
      [udbyder |-> n, pris_mdr |-> <<"2", "9", "9", " ", "k", "r">>] }

Candidates(p, n) ==
    IF p = "fiber" THEN FiberCandidates(n)
    ELSE IF p = "tv" THEN TvCandidates(n) ELSE MobileCandidates(n)

\* The sequences of 1..n elements of S
SeqsUpTo(S, n) == UNION {[1..k -> S] : k \in 1..n}

(***************************************************************************)
(* The aggregators: scrape_all_providers, scrape_tv_providers,             *)
(* scrape_mobile_providers.                                                *)
(***************************************************************************)
\* package['scraped_at'] = datetime.now().isoformat(); package['provider'] = provider_name
tag_record(rec, name, now) == SetItem(SetItem(rec, "scraped_at", now), "provider", name)

\* The TV and mobile loop body on a non-empty producer result
tag_records(batch, name, now) ==
    [i \in 1..Len(batch) |-> tag_record(batch[i], name, now + i - 1)]

\* normalized_plan = {...} of scrape_all_providers
normalized_plan(plan, name) ==
    [udbyder |-> Get(plan, "udbyder", name),
     hastighed_mbit |-> normalize_speed(Get(plan, "hastighed_mbit", <<>>)),
     pris_mdr |-> normalize_price(Get(plan, "pris_mdr", <<>>)),
     bindingstid_mdr |-> normalize_contract_length(Get(plan, "bindingstid_mdr", <<>>)),
     kampagne |-> Get(plan, "kampagne", <<>>),
     plan_navn |-> Get(plan, "plan_navn", <<>>),
     beskrivelse |-> Get(plan, "beskrivelse", <<>>),
     features |-> Get(plan, "features", <<>>),
     rating |-> Get(plan, "rating", 0)]

\* A validation that accepts a plan with either field
valid_plan_either(np) == np.hastighed_mbit > 0 \/ np.pris_mdr > 0

\* "Validate required fields"
valid_plan(np) == np.hastighed_mbit > 0 /\ np.pris_mdr > 0

\* A loop that collects the valid plans of one provider last to first
normalized_plans_reversed(batch, name) ==
    LET kept == SelectSeq([i \in 1..Len(batch) |-> normalized_plan(batch[i], name)],
                          valid_plan)
    IN [i \in 1..Len(kept) |-> kept[Len(kept) + 1 - i]]

\* normalized_plans of one provider: the valid ones, in the producer's order
normalized_plans(batch, name) ==
    SelectSeq([i \in 1..Len(batch) |-> normalized_plan(batch[i], name)], valid_plan)

\* An except clause that ends the loop
abort_after_failure(p, i) == Len(Providers(p)) + 1

\* except Exception: ... continue
continue_after_failure(p, i) == i + 1

\* A light mode that is not looked at
Invokes_any_mode(p, mode, d) == d.enabled

\* Whether the loop body calls the producer of descriptor d: the enabled check,
\* then (TV and mobile) the light-mode check
Invokes(p, mode, d) ==
    /\ d.enabled
    /\ p = "fiber" \/ mode # "light" \/ d.name \in LightProviders(p)

InLoop == pc = "scrape" /\ idx <= Len(Providers(pipeline))

Current == Providers(pipeline)[idx]

\* if not provider['enabled']: continue
skip_disabled ==
    /\ InLoop
    /\ ~Current.enabled
    /\ idx' = idx + 1
    /\ last' = "disabled"
    /\ UNCHANGED <<pipeline, scraper_type, force_update, disk, disk_copy, pc,
                   existing_data, all_plans, successful_providers, failed_providers,
                   invoked, changes, saves, clock, result, rejected>>
    /\ UNCHANGED <<fn, arg, ret>>
    /\ packages' = <<>>
    /\ UNCHANGED capacity

\* if scraper_type == 'light': if provider_name not in [...]: continue
skip_light ==
    /\ InLoop
    /\ Current.enabled
    /\ ~Invokes(pipeline, scraper_type, Current)
    /\ idx' = idx + 1
    /\ last' = "light"
    /\ UNCHANGED <<pipeline, scraper_type, force_update, disk, disk_copy, pc,
                   existing_data, all_plans, successful_providers, failed_providers,
                   invoked, changes, saves, clock, result, rejected>>
    /\ UNCHANGED <<fn, arg, ret>>
    /\ packages' = <<>>
    /\ UNCHANGED capacity

\* The producer raises: the except clause
producer_raises ==
    /\ InLoop
    /\ Invokes(pipeline, scraper_type, Current)
    /\ invoked' = Append(invoked, Current.name)
    /\ failed_providers' = IF pipeline = "fiber" THEN failed_providers
                           ELSE failed_providers + 1
    /\ idx' = continue_after_failure(pipeline, idx)
    /\ last' = "raised"
    /\ UNCHANGED <<pipeline, scraper_type, force_update, disk, disk_copy, pc,
                   existing_data, all_plans, successful_providers, changes, saves,
                   clock, result, rejected>>
    /\ UNCHANGED <<fn, arg, ret>>
    /\ packages' = <<>>
    /\ UNCHANGED capacity

\* An else branch that logs the empty result and counts nothing
producer_returns_nothing_uncounted ==
    /\ InLoop
    /\ Invokes(pipeline, scraper_type, Current)
    /\ invoked' = Append(invoked, Current.name)
    /\ idx' = idx + 1
    /\ last' = "empty"
    /\ UNCHANGED <<pipeline, scraper_type, force_update, disk, disk_copy, pc,
                   existing_data, all_plans, successful_providers, failed_providers,
                   changes, saves, clock, result, rejected>>
    /\ UNCHANGED <<fn, arg, ret>>
    /\ packages' = <<>>
    /\ UNCHANGED capacity

\* The producer returns an empty sequence
producer_returns_nothing ==
    /\ InLoop
    /\ Invokes(pipeline, scraper_type, Current)
    /\ invoked' = Append(invoked, Current.name)
    /\ failed_providers' = IF pipeline = "fiber" THEN failed_providers
                           ELSE failed_providers + 1
    /\ idx' = idx + 1
    /\ last' = "empty"
    /\ UNCHANGED <<pipeline, scraper_type, force_update, disk, disk_copy, pc,
                   existing_data, all_plans, successful_providers, changes, saves,
                   clock, result, rejected>>
    /\ UNCHANGED <<fn, arg, ret>>
    /\ packages' = <<>>
    /\ UNCHANGED capacity

\* The producer of a TV or mobile provider returns records
producer_returns ==
    /\ InLoop
    /\ pipeline # "fiber"
    /\ Invokes(pipeline, scraper_type, Current)
    /\ \E batch \in SeqsUpTo(Candidates(pipeline, Current.name), capacity - Len(all_plans)) :
          /\ packages' = batch
          /\ all_plans' = all_plans \o tag_records(batch, Current.name, clock)
          /\ clock' = clock + Len(batch)
    /\ invoked' = Append(invoked, Current.name)
    /\ successful_providers' = successful_providers + 1
    /\ idx' = idx + 1
    /\ last' = "returned"
    /\ UNCHANGED <<pipeline, scraper_type, force_update, disk, disk_copy, pc,
                   existing_data, failed_providers, changes, saves, result, rejected>>
    /\ UNCHANGED <<fn, arg, ret>>
    /\ UNCHANGED capacity

\* The producer of a fiber provider returns plans
fiber_producer_returns ==
    /\ InLoop
    /\ pipeline = "fiber"
    /\ Invokes(pipeline, scraper_type, Current)
    /\ \E batch \in SeqsUpTo(Candidates(pipeline, Current.name), capacity - Len(all_plans)) :
          LET accepted == normalized_plans(batch, Current.name)
          IN /\ packages' = batch
             /\ all_plans' = all_plans \o accepted
             /\ rejected' = (rejected \/ Len(accepted) < Len(batch))
    /\ invoked' = Append(invoked, Current.name)
    /\ idx' = idx + 1
    /\ last' = "returned"
    /\ UNCHANGED <<pipeline, scraper_type, force_update, disk, disk_copy, pc,
                   existing_data, successful_providers, failed_providers, changes,
                   saves, clock, result>>
    /\ UNCHANGED <<fn, arg, ret>>
    /\ UNCHANGED capacity

(***************************************************************************)
(* The snapshot files and main.                                            *)
(***************************************************************************)
\* No file at the path
NoFile == [kind |-> "none"]

\* A file that json.load rejects: damaged, or written in part
Unreadable == [kind |-> "unreadable"]

\* json.dump(data, f) of save_data: the record list itself
ListFile(data) == [kind |-> "list", plans |-> data]

\* An output_data that lists the configured providers, not those of the plans
output_data_configured(data, now) ==
    [kind |-> "document",
     last_updated |-> now,
     total_plans |-> Len(data),
     providers |-> {PROVIDERS[i].name : i \in {j \in 1..Len(PROVIDERS) : PROVIDERS[j].enabled}},
     plans |-> data]

\* output_data of save_to_json
output_data(data, now) ==
    [kind |-> "document",
     last_updated |-> now,
     total_plans |-> Len(data),
     providers |-> {data[i].udbyder : i \in 1..Len(data)},
     plans |-> data]

\* load_existing_data()
load_existing_data(file) == IF file.kind = "list" THEN file.plans ELSE <<>>

\* A run that saves whatever it collected
save_always(ch, force) == TRUE

\* A run that saves only when a record was updated
save_on_update(ch, force) == ch.updated # 0 \/ force

\* A run that does not look at the force flag
save_on_changes(ch, force) == any_changes(ch)

\* if any(changes.values()) or force_update
save_wanted(ch, force) == any_changes(ch) \/ force

\* A main whose load lets the error of a damaged file through
main_load_raises ==
    /\ pc = "start"
    /\ pipeline # "fiber"
    /\ IF disk.kind = "unreadable"
       THEN existing_data' = existing_data /\ pc' = "done" /\ result' = "raised"
       ELSE existing_data' = load_existing_data(disk) /\ pc' = "scrape" /\ result' = result
    /\ UNCHANGED <<pipeline, scraper_type, force_update, disk, disk_copy, all_plans,
                   idx, successful_providers, failed_providers, last, invoked,
                   changes, saves, clock, rejected>>
    /\ UNCHANGED <<fn, arg, ret>>
    /\ UNCHANGED packages
    /\ UNCHANGED capacity

\* main of the TV and mobile scripts, up to the aggregator
main_load ==
    /\ pc = "start"
    /\ pipeline # "fiber"
    /\ existing_data' = load_existing_data(disk)
    /\ pc' = "scrape"
    /\ UNCHANGED <<pipeline, scraper_type, force_update, disk, disk_copy, all_plans,
                   idx, successful_providers, failed_providers, last, invoked,
                   changes, saves, clock, result, rejected>>
    /\ UNCHANGED <<fn, arg, ret>>
    /\ UNCHANGED packages
    /\ UNCHANGED capacity

AggregatorReturned == pc = "scrape" /\ idx > Len(Providers(pipeline))

\* if not new_data: logger.error(...); return
main_no_data ==
    /\ AggregatorReturned
    /\ pipeline # "fiber"
    /\ all_plans = <<>>
    /\ pc' = "done"
    /\ result' = "returned"
    /\ UNCHANGED <<pipeline, scraper_type, force_update, disk, disk_copy,
                   existing_data, all_plans, idx, successful_providers,
                   failed_providers, last, invoked, changes, saves, clock, rejected>>
    /\ UNCHANGED <<fn, arg, ret>>
    /\ packages' = <<>>
    /\ UNCHANGED capacity

\* main of the TV and mobile scripts from detect_changes to the call of save_data
main_detect ==
    /\ AggregatorReturned
    /\ pipeline # "fiber"
    /\ all_plans # <<>>
    /\ changes' = detect_changes(pipeline, existing_data, all_plans)
    /\ IF save_wanted(changes', force_update)
       THEN pc' = "save" /\ saves' = saves + 1 /\ result' = result
       ELSE pc' = "done" /\ saves' = saves /\ result' = "returned"
    /\ UNCHANGED <<pipeline, scraper_type, force_update, disk, disk_copy,
                   existing_data, all_plans, idx, successful_providers,
                   failed_providers, last, invoked, clock, rejected>>
    /\ UNCHANGED <<fn, arg, ret>>
    /\ packages' = <<>>
    /\ UNCHANGED capacity

\* save_data(new_data) writes the file, and main returns
save_data ==
    /\ pc = "save"
    /\ pipeline # "fiber"
    /\ disk' = ListFile(all_plans)
    /\ pc' = "done"
    /\ result' = "returned"
    /\ UNCHANGED <<pipeline, scraper_type, force_update, disk_copy, existing_data,
                   all_plans, idx, successful_providers, failed_providers, last,
                   invoked, changes, saves, clock, rejected>>
    /\ UNCHANGED <<fn, arg, ret>>
    /\ UNCHANGED packages
    /\ UNCHANGED capacity

\* A save_data whose except clause logs the error and returns
save_data_swallows ==
    /\ pc = "save"
    /\ pipeline # "fiber"
    /\ disk' \in {disk, Unreadable}
    /\ pc' = "done"
    /\ result' = "returned"
    /\ UNCHANGED <<pipeline, scraper_type, force_update, disk_copy, existing_data,
                   all_plans, idx, successful_providers, failed_providers, last,
                   invoked, changes, saves, clock, rejected>>
    /\ UNCHANGED <<fn, arg, ret>>
    /\ UNCHANGED packages
    /\ UNCHANGED capacity

\* save_data(new_data) fails and raises again: before open() has emptied the
\* file, or after
save_data_fails ==
    /\ pc = "save"
    /\ pipeline # "fiber"
    /\ disk' \in {disk, Unreadable}
    /\ pc' = "done"
    /\ result' = "raised"
    /\ UNCHANGED <<pipeline, scraper_type, force_update, disk_copy, existing_data,
                   all_plans, idx, successful_providers, failed_providers, last,
                   invoked, changes, saves, clock, rejected>>
    /\ UNCHANGED <<fn, arg, ret>>
    /\ UNCHANGED packages
    /\ UNCHANGED capacity

\* main of the fiber script: save_to_json(all_plans, 'data/fiber.json')
fiber_main_save ==
    /\ AggregatorReturned
    /\ pipeline = "fiber"
    /\ disk' = output_data(all_plans, clock)
    /\ clock' = clock + 1
    /\ saves' = saves + 1
    /\ pc' = "save"
    /\ UNCHANGED <<pipeline, scraper_type, force_update, disk_copy, existing_data,
                   all_plans, idx, successful_providers, failed_providers, last,
                   invoked, changes, result, rejected>>
    /\ UNCHANGED <<fn, arg, ret>>
    /\ packages' = <<>>
    /\ UNCHANGED capacity

\* The first save_to_json fails: the exception leaves main
fiber_main_save_fails ==
    /\ AggregatorReturned
    /\ pipeline = "fiber"
    /\ disk' \in {disk, Unreadable}
    /\ saves' = saves + 1
    /\ pc' = "done"
    /\ result' = "raised"
    /\ UNCHANGED <<pipeline, scraper_type, force_update, disk_copy, existing_data,
                   all_plans, idx, successful_providers, failed_providers, last,
                   invoked, changes, clock, rejected>>
    /\ UNCHANGED <<fn, arg, ret>>
    /\ packages' = <<>>
    /\ UNCHANGED capacity

\* save_to_json(all_plans, 'scraper/data/fiber.json'), the summary, and main returns
fiber_main_save_copy ==
    /\ pc = "save"
    /\ pipeline = "fiber"
    /\ disk_copy' = output_data(all_plans, clock)
    /\ clock' = clock + 1
    /\ saves' = saves + 1
    /\ pc' = "done"
    /\ result' = "returned"
    /\ UNCHANGED <<pipeline, scraper_type, force_update, disk, existing_data,
                   all_plans, idx, successful_providers, failed_providers, last,
                   invoked, changes, rejected>>
    /\ UNCHANGED <<fn, arg, ret>>
    /\ UNCHANGED packages
    /\ UNCHANGED capacity

\* The second save_to_json fails
fiber_main_save_copy_fails ==
    /\ pc = "save"
    /\ pipeline = "fiber"
    /\ disk_copy' \in {disk_copy, Unreadable}
    /\ saves' = saves + 1
    /\ pc' = "done"
    /\ result' = "raised"
    /\ UNCHANGED <<pipeline, scraper_type, force_update, disk, existing_data,
                   all_plans, idx, successful_providers, failed_providers, last,
                   invoked, changes, clock, rejected>>
    /\ UNCHANGED <<fn, arg, ret>>
    /\ UNCHANGED packages
    /\ UNCHANGED capacity

(***************************************************************************)
(* One run of one script.                                                  *)
(***************************************************************************)
\* A record as an earlier run of the TV or mobile script saved it
SavedRecord(p) ==
    IF p = "tv"
    THEN [udbyder |-> <<"YouSee">>, pakke_navn |-> <<"Basis">>, kanaler |-> 40,
          pris_mdr |-> 399, kampagne |-> <<>>, scraped_at |-> 0,
          provider |-> <<"YouSee">>]
    ELSE [udbyder |-> <<"Telia">>, data_GB |-> 20, pris_mdr |-> 89, kampagne |-> <<>>,
          scraped_at |-> 0, provider |-> <<"Telia">>]

\* The snapshot file a run may find
InitialFiles(p) ==
    IF p = "fiber" THEN {NoFile, Unreadable}
    ELSE {NoFile, Unreadable, ListFile(<<SavedRecord(p)>>)}

Init ==
    /\ pipeline \in {"fiber", "tv", "mobil"}
    /\ scraper_type \in (IF pipeline = "fiber" THEN {"full"} ELSE {"full", "light"})
    /\ force_update \in (IF pipeline = "fiber" THEN {FALSE} ELSE BOOLEAN)
    /\ disk \in InitialFiles(pipeline)
    /\ disk_copy = NoFile
    /\ pc = IF pipeline = "fiber" THEN "scrape" ELSE "start"
    /\ existing_data = <<>>
    /\ all_plans = <<>>
    /\ idx = 1
    /\ successful_providers = 0
    /\ failed_providers = 0
    /\ last = "none"
    /\ invoked = <<>>
    /\ changes = NoChanges
    /\ saves = 0
    /\ clock = 1
    /\ result = "running"
    /\ rejected = FALSE
    /\ fn = "none"
    /\ arg = NoArg
    /\ ret = 0
    /\ packages = <<>>
    /\ capacity = MaxPlans

Next ==
    \/ main_load
    \/ skip_disabled
    \/ skip_light
    \/ producer_raises
    \/ producer_returns_nothing
    \/ producer_returns
    \/ fiber_producer_returns
    \/ main_no_data
    \/ main_detect
    \/ save_data
    \/ save_data_fails
    \/ fiber_main_save
    \/ fiber_main_save_fails
    \/ fiber_main_save_copy
    \/ fiber_main_save_copy_fails

Spec == Init /\ [][Next]_vars

(***************************************************************************)
(* The change detector on its own: detect_changes applied to two           *)
(* snapshots of at most MaxSnapshot records.                               *)
(***************************************************************************)
\* The records of the snapshots: two offers, one of them at two prices, each
\* with or without a promotion
DiffRecords(p) ==
    IF p = "tv"
    THEN { [udbyder |-> <<"X">>, pakke_navn |-> pk[1], kanaler |-> 40, pris_mdr |-> pk[2],
            kampagne |-> promo] :
             pk \in {<<<<"P">>, 100>>, <<<<"P">>, 120>>, <<<<"Q">>, 100>>},
             promo \in {<<>>, <<"Gratis">>} }
    ELSE { [udbyder |-> <<"X">>, data_GB |-> pk[1], pris_mdr |-> pk[2], kampagne |-> promo] :
             pk \in {<<5, 100>>, <<5, 120>>, <<20, 100>>},
             promo \in {<<>>, <<"Gratis">>} }

\* One offer at one price, with or without a promotion, and with another field
\* at two values: the channel count of a TV package, the contract length of a
\* mobile plan
VariantRecords(p) ==
    IF p = "tv"
    THEN { [udbyder |-> <<"X">>, pakke_navn |-> <<"P">>, kanaler |-> ch, pris_mdr |-> 100,
            kampagne |-> promo] :
             ch \in {40, 38}, promo \in {<<>>, <<"Gratis">>} }
    ELSE { [udbyder |-> <<"X">>, data_GB |-> 5, pris_mdr |-> 100, kampagne |-> promo,
            bindingstid_mdr |-> b] :
             b \in {0, 6}, promo \in {<<>>, <<"Gratis">>} }

\* Offers whose provider name or package name holds a '-': two TV packages
\* whose names join to the same text, each at two prices, and mobile plans of
\* two such providers
DashRecords(p) ==
    IF p = "tv"
    THEN { [udbyder |-> nm[1], pakke_navn |-> nm[2], kanaler |-> 40, pris_mdr |-> pr,
            kampagne |-> nm[3]] :
             nm \in {<<<<"A", "-", "B">>, <<"C">>, <<>>>>,
                     <<<<"A">>, <<"B", "-", "C">>, <<"Gratis">>>>},
             pr \in {100, 120} }
    ELSE { [udbyder |-> u, data_GB |-> d, pris_mdr |-> 100, kampagne |-> <<>>] :
             u \in {<<"A", "-", "5">>, <<"A">>}, d \in {5, 20} }

\* The record sets the two snapshots of one comparison are drawn from
DiffFamilies(p) == {DiffRecords(p), VariantRecords(p), DashRecords(p)}

Snapshots(recs) == {<<>>} \cup SeqsUpTo(recs, MaxSnapshot)

InitDiff ==
    /\ pipeline \in {"tv", "mobil"}
    /\ scraper_type = "full"
    /\ force_update = FALSE
    /\ disk = NoFile
    /\ disk_copy = NoFile
    /\ pc = "diff"
    /\ \E recs \in DiffFamilies(pipeline) :
          /\ existing_data \in Snapshots(recs)
          /\ all_plans \in Snapshots(recs)
    /\ idx = 1
    /\ successful_providers = 0
    /\ failed_providers = 0
    /\ last = "none"
    /\ invoked = <<>>
    /\ changes = NoChanges
    /\ saves = 0
    /\ clock = 1
    /\ result = "running"
    /\ rejected = FALSE
    /\ fn = "none"
    /\ arg = NoArg
    /\ ret = 0
    /\ packages = <<>>
    /\ capacity = MaxPlans

\* changes = detect_changes(existing_data, new_data)
call_detect_changes ==
    /\ pc = "diff"
    /\ changes' = detect_changes(pipeline, existing_data, all_plans)
    /\ pc' = "diffed"
    /\ UNCHANGED <<pipeline, scraper_type, force_update, disk, disk_copy,
                   existing_data, all_plans, idx, successful_providers,
                   failed_providers, last, invoked, saves, clock, result, rejected>>
    /\ UNCHANGED <<fn, arg, ret>>
    /\ UNCHANGED packages
    /\ UNCHANGED capacity

NextDiff == call_detect_changes

SpecDiff == InitDiff /\ [][NextDiff]_vars

\* The discriminant of the identity: package name (TV), data allotment (mobile)
Discriminant(p, rec) == IF p = "tv" THEN rec.pakke_navn ELSE rec.data_GB

\* The keys both snapshots hold whose records differ in price or promotion
ChangedSharedKeys ==
    LET old_lookup == build_lookup(pipeline, existing_data)
        new_lookup == build_lookup(pipeline, all_plans)
    IN {k \in DOMAIN old_lookup \cap DOMAIN new_lookup :
          \/ GetDiffers(old_lookup[k], new_lookup[k], "pris_mdr")
          \/ GetDiffers(old_lookup[k], new_lookup[k], "kampagne")}

\* C1: when each snapshot holds one record, of the same provider, discriminant
\* and promotion, and the prices differ, the change detector reports one
\* update, one price change, and nothing new, removed or changed in promotion.
C1_PriceChangeIsUpdate ==
    ( /\ pc = "diffed"
      /\ Len(existing_data) = 1
      /\ Len(all_plans) = 1
      /\ existing_data[1].udbyder = all_plans[1].udbyder
      /\ Discriminant(pipeline, existing_data[1]) = Discriminant(pipeline, all_plans[1])
      /\ existing_data[1].kampagne = all_plans[1].kampagne
      /\ existing_data[1].pris_mdr # all_plans[1].pris_mdr )
    => changes = [new |-> 0, updated |-> 1, removed |-> 0, price_changes |-> 1,
                  promotion_changes |-> 0]

\* C2: the updated count is the number of keys held by both snapshots whose
\* records differ in price or in promotion, each counted once.
C2_UpdatedCountsEachChangedRecord ==
    pc = "diffed" => changes.updated = Cardinality(ChangedSharedKeys)

(***************************************************************************)
(* The runs: saving, empty batches, producer failures, validation, the     *)
(* provider tag, light mode.                                               *)
(***************************************************************************)
\* The aggregator has returned, or main is past it
AggregatorDone == pc \in {"save", "done"} \/ AggregatorReturned

\* The names of the providers a pass in the given mode calls, in configured
\* order: the enabled ones, in light mode only the key providers among them
ExpectedInvocations(p, mode) ==
    LET Wanted(d) == d.enabled /\ (p # "fiber" /\ mode = "light" => d.name \in LightProviders(p))
        sel == SelectSeq(Providers(p), Wanted)
    IN [i \in 1..Len(sel) |-> sel[i].name]

\* The records of a snapshot file, none when it holds no snapshot
FilePlans(file) == IF file.kind \in {"list", "document"} THEN file.plans ELSE <<>>

\* C3 as stated: in each of the three scripts the save function is called only
\* when the computed changes have a non-zero count or the force flag is set.
C3_SaveOnlyOnChangeOrForce == saves > 0 => any_changes(changes) \/ force_update

\* C3 amended: in the TV and mobile scripts the save function is called only
\* when the changes computed against the loaded snapshot have a non-zero count
\* or the force flag is set, and a run that does not call it leaves the file as
\* it was loaded; the fiber script, which computes no changes and reads no
\* flag, calls its save function in every run.
C3_TvMobileSaveOnlyOnChangeOrForce ==
    /\ pipeline # "fiber" /\ saves > 0 =>
          /\ changes = detect_changes(pipeline, existing_data, all_plans)
          /\ any_changes(changes) \/ force_update
    /\ pipeline # "fiber" /\ saves = 0 /\ pc # "start" =>
          load_existing_data(disk) = existing_data
    /\ pipeline = "fiber" /\ pc = "done" => saves > 0

\* A TV or mobile run that collected records, found nothing changed and had no
\* force flag has returned without calling save_data
C3_Witness ==
    /\ pipeline # "fiber"
    /\ pc = "done"
    /\ result = "returned"
    /\ all_plans # <<>>
    /\ ~force_update
    /\ ~any_changes(changes)
    /\ saves = 0

\* C4: a run that collected no valid record writes no snapshot and ends in a
\* failure that differs from a successful return; no file ever holds a snapshot
\* with an empty record sequence.
C4_EmptyBatchFailsWithoutWrite ==
    /\ pc = "done" /\ all_plans = <<>> => saves = 0 /\ result # "returned"
    /\ \A file \in {disk, disk_copy} :
          file.kind \in {"list", "document"} => file.plans # <<>>

\* C5: when a producer raises, the step adds no record and keeps the records
\* collected so far, the loop goes on and main keeps running; once the pass is
\* over, every provider that the mode admits has been called, in order.
C5_ProducerFailureIsIsolated ==
    /\ [][last' = "raised" /\ invoked' # invoked =>
            /\ all_plans' = all_plans
            /\ pc' = "scrape"
            /\ result' = "running"]_vars
    /\ [](AggregatorDone => invoked = ExpectedInvocations(pipeline, scraper_type))

\* A producer has just raised, records of earlier providers are held, and the
\* loop is about to call the next provider
C5_Witness ==
    /\ last = "raised"
    /\ all_plans # <<>>
    /\ InLoop
    /\ Invokes(pipeline, scraper_type, Current)

\* C6: every record of the snapshot file of the TV script has a channel count
\* above zero and a monthly price above zero.
C6_TvSnapshotRecordsComplete ==
    pipeline = "tv" =>
        \A i \in 1..Len(FilePlans(disk)) :
            LET rec == FilePlans(disk)[i]
            IN /\ "kanaler" \in DOMAIN rec /\ rec.kanaler > 0
               /\ "pris_mdr" \in DOMAIN rec /\ rec.pris_mdr > 0

\* C7: every record of the snapshot file of the mobile script has a monthly
\* price above zero.
C7_MobileSnapshotRecordsPriced ==
    pipeline = "mobil" =>
        \A i \in 1..Len(FilePlans(disk)) :
            LET rec == FilePlans(disk)[i]
            IN "pris_mdr" \in DOMAIN rec /\ rec.pris_mdr > 0

\* C8: every plan in the result of the fiber aggregator, and in the files the
\* fiber script writes, has a speed above zero and a monthly price above zero.
C8_FiberPlansValid ==
    pipeline = "fiber" =>
        \A plans \in {all_plans, FilePlans(disk), FilePlans(disk_copy)} :
            \A i \in 1..Len(plans) :
                plans[i].hastighed_mbit > 0 /\ plans[i].pris_mdr > 0

\* The fiber script has rejected a candidate, kept another, and written the file
C8_Witness ==
    /\ pipeline = "fiber"
    /\ rejected
    /\ pc = "done"
    /\ disk.kind = "document"
    /\ disk.plans # <<>>

\* The field that names the provider of an aggregated record: the provider tag
\* of the TV and mobile scripts, udbyder in the fiber script
ProviderIdentity(p, rec) == IF p = "fiber" THEN rec.udbyder ELSE rec.provider

\* C9: every record an aggregator adds carries the configured name of the
\* descriptor whose producer returned it, whatever name the record reported.
C9_ConfiguredNameOverrides ==
    [][\A i \in (Len(all_plans) + 1)..Len(all_plans') :
          ProviderIdentity(pipeline, all_plans'[i]) = Providers(pipeline)[idx].name]_vars

\* C10: in light mode only enabled key providers are called; once the pass is
\* over, the providers called are all the enabled ones in full mode and all the
\* enabled key providers in light mode.
C10_LightModeCallsOnlyKeyProviders ==
    /\ scraper_type = "light" =>
          \A i \in 1..Len(invoked) :
              /\ invoked[i] \in LightProviders(pipeline)
              /\ \E j \in 1..Len(Providers(pipeline)) :
                    Providers(pipeline)[j].name = invoked[i] /\ Providers(pipeline)[j].enabled
    /\ AggregatorDone => invoked = ExpectedInvocations(pipeline, scraper_type)

\* A light pass of the TV script is over: it skipped providers and called the rest
C10_Witness ==
    /\ pipeline = "tv"
    /\ scraper_type = "light"
    /\ AggregatorDone
    /\ last = "light"
    /\ invoked # <<>>

(***************************************************************************)
(* The change detector on snapshots with shared keys, on a first run, on   *)
(* an unchanged offer list, and in both directions.                        *)
(***************************************************************************)
\* The identity keys of the records of a snapshot
SnapshotKeys(p, data) == {lookup_key(p, data[i]) : i \in 1..Len(data)}

\* C11: for any two snapshots, also ones in which several records share a key,
\* the change detector returns its five counts, its new count is the number of
\* distinct keys of the new snapshot that the old one lacks, and its removed
\* count the number of distinct keys of the old snapshot that the new one lacks.
C11_NewAndRemovedCountDistinctKeys ==
    pc = "diffed" =>
        /\ DOMAIN changes = DOMAIN NoChanges
        /\ \A k \in DOMAIN changes : changes[k] \in Nat
        /\ changes.new = Cardinality(SnapshotKeys(pipeline, all_plans)
                                       \ SnapshotKeys(pipeline, existing_data))
        /\ changes.removed = Cardinality(SnapshotKeys(pipeline, existing_data)
                                           \ SnapshotKeys(pipeline, all_plans))

\* The detector has compared two snapshots of two records each, in each of which
\* both records share one key, and the two keys differ
C11_Witness ==
    /\ pc = "diffed"
    /\ Len(existing_data) = 2
    /\ Len(all_plans) = 2
    /\ existing_data[1] # existing_data[2]
    /\ Cardinality(SnapshotKeys(pipeline, existing_data)) = 1
    /\ Cardinality(SnapshotKeys(pipeline, all_plans)) = 1
    /\ changes.new = 1
    /\ changes.removed = 1

\* The validity the claims speak of: a monthly price above zero, and for a TV
\* package a channel count above zero
ValidRecord(p, rec) ==
    /\ "pris_mdr" \in DOMAIN rec /\ rec.pris_mdr > 0
    /\ p = "tv" => "kanaler" \in DOMAIN rec /\ rec.kanaler > 0

\* main of the TV or mobile script is past detect_changes
Detected == pipeline # "fiber" /\ pc \in {"save", "done"} /\ all_plans # <<>>

\* C12 as stated: when the old snapshot is empty and the run collected n valid
\* records, n >= 1, the change detector reports n new records, none updated,
\* none removed, and the run calls save_data.
C12_FirstRunCountsEveryRecord ==
    ( /\ Detected
      /\ existing_data = <<>>
      /\ \A i \in 1..Len(all_plans) : ValidRecord(pipeline, all_plans[i]) )
    => /\ changes.new = Len(all_plans)
       /\ changes.updated = 0
       /\ changes.removed = 0
       /\ saves = 1

\* C12 amended: when the old snapshot is empty and the run collected n >= 1
\* records, the new count is the number of distinct identity keys among them
\* (n when no two of them share a key, at least 1 always), nothing is updated or
\* removed, and the run calls save_data.
C12_FirstRunCountsDistinctKeys ==
    Detected /\ existing_data = <<>>
    => /\ changes.new = Cardinality(SnapshotKeys(pipeline, all_plans))
       /\ changes.new >= 1
       /\ (\A i, j \in 1..Len(all_plans) :
              i # j => lookup_key(pipeline, all_plans[i]) # lookup_key(pipeline, all_plans[j]))
            => changes.new = Len(all_plans)
       /\ changes.updated = 0
       /\ changes.removed = 0
       /\ saves = 1

\* A TV run that found no snapshot has collected two valid packages with
\* different keys, counted both as new and written them
C12_Witness ==
    /\ pipeline = "tv"
    /\ pc = "done"
    /\ result = "returned"
    /\ existing_data = <<>>
    /\ Len(all_plans) = 2
    /\ \A i \in 1..2 : ValidRecord(pipeline, all_plans[i])
    /\ changes.new = 2
    /\ disk = ListFile(all_plans)

\* A record without the time at which it was scraped, which every run sets anew
WithoutStamp(rec) == [k \in DOMAIN rec \ {"scraped_at"} |-> rec[k]]

\* The two record sequences hold the same records, field by field, but for the
\* scrape time
SameOffers(old_data, new_data) ==
    /\ Len(old_data) = Len(new_data)
    /\ \A i \in 1..Len(old_data) : WithoutStamp(old_data[i]) = WithoutStamp(new_data[i])

\* C13: when the collected records equal the loaded snapshot, all five counts
\* of the change detector are zero and the run calls save_data exactly when the
\* force flag is set; a run with the force flag and a non-empty batch calls
\* save_data whatever the counts are.
C13_UnchangedSnapshotSavedOnlyOnForce ==
    /\ Detected /\ SameOffers(existing_data, all_plans) =>
          /\ changes = NoChanges
          /\ saves = (IF force_update THEN 1 ELSE 0)
          /\ ~force_update => result = "returned" /\ load_existing_data(disk) = existing_data
    /\ Detected /\ force_update => saves = 1

\* A forced TV or mobile run has collected what the snapshot held, found
\* nothing changed, and written the file again
C13_Witness ==
    /\ Detected
    /\ force_update
    /\ existing_data # <<>>
    /\ SameOffers(existing_data, all_plans)
    /\ changes = NoChanges
    /\ result = "returned"
    /\ disk = ListFile(all_plans)

\* Records of the two snapshots that share a key have the same price and the
\* same promotion
SharedKeysAgree(p, a, b) ==
    \A r1, r2 \in {a[i] : i \in 1..Len(a)} \cup {b[i] : i \in 1..Len(b)} :
        lookup_key(p, r1) = lookup_key(p, r2) =>
            /\ ~GetDiffers(r1, r2, "pris_mdr")
            /\ ~GetDiffers(r1, r2, "kampagne")

\* C14: for two snapshots whose records agree in price and promotion wherever
\* they share a key, the new count of the detector applied to (old, new) is the
\* removed count of the detector applied to (new, old), and the removed count
\* of the first is the new count of the second.
C14_DiffIsSymmetric ==
    pc = "diffed" /\ SharedKeysAgree(pipeline, existing_data, all_plans) =>
        LET back == detect_changes(pipeline, all_plans, existing_data)
        IN /\ changes.new = back.removed
           /\ changes.removed = back.new

\* The detector has compared two snapshots that share a key with equal price
\* and promotion, and each holds a key the other lacks
C14_Witness ==
    /\ pc = "diffed"
    /\ SharedKeysAgree(pipeline, existing_data, all_plans)
    /\ SnapshotKeys(pipeline, existing_data) \cap SnapshotKeys(pipeline, all_plans) # {}
    /\ changes.new = 1
    /\ changes.removed = 1

(***************************************************************************)
(* The snapshot files: writing, loading, failing.                          *)
(***************************************************************************)
\* The file holds a complete snapshot of the given records
FileHolds(file, data) == file.kind \in {"list", "document"} /\ file.plans = data

\* C15: whatever a step does to a snapshot file, also a save that fails, the
\* file is afterwards what it was before or the complete new snapshot, never a
\* file written in part.
C15_SaveIsAtomic ==
    [][ /\ disk' = disk \/ FileHolds(disk', all_plans)
        /\ disk_copy' = disk_copy \/ FileHolds(disk_copy', all_plans) ]_vars

\* C16: when the snapshot file is missing or cannot be parsed, loading yields
\* the empty record sequence and main goes on to the aggregator; the change
\* detector then works as on a run with no history, and every key of a
\* collected record is counted as new.
C16_UnreadableSnapshotIsNoHistory ==
    /\ [][pc = "start" /\ pc' # "start" /\ disk.kind # "list" =>
            /\ existing_data' = <<>>
            /\ pc' = "scrape"
            /\ result' = "running"]_vars
    /\ [](pipeline # "fiber" /\ pc = "save" /\ disk.kind # "list" =>
            /\ existing_data = <<>>
            /\ changes = detect_changes(pipeline, <<>>, all_plans)
            /\ changes.new = Cardinality(SnapshotKeys(pipeline, all_plans))
            /\ changes.updated = 0
            /\ changes.removed = 0)

\* A mobile run has loaded a file that cannot be parsed, collected two plans
\* and counted both as new; it is about to write them
C16_Witness ==
    /\ pipeline = "mobil"
    /\ disk = Unreadable
    /\ pc = "save"
    /\ result = "running"
    /\ existing_data = <<>>
    /\ Len(all_plans) = 2
    /\ changes.new = 2

\* The files the script writes hold the records the run collected
SnapshotWritten ==
    /\ FileHolds(disk, all_plans)
    /\ pipeline = "fiber" => FileHolds(disk_copy, all_plans)

\* C17: a run that called its save function and could not write the snapshot
\* ends with the error raised out of main; a run that called it and returned
\* normally has written every file.
C17_WriteFailurePropagates ==
    pc = "done" /\ saves > 0 =>
        /\ result \in {"returned", "raised"}
        /\ ~SnapshotWritten => result = "raised"
        /\ result = "returned" => SnapshotWritten

\* A TV run loaded a snapshot, called save_data, the write failed after the
\* file was emptied, and the error left main
C17_Witness ==
    /\ pipeline = "tv"
    /\ pc = "done"
    /\ saves = 1
    /\ existing_data # <<>>
    /\ disk = Unreadable
    /\ result = "raised"

(***************************************************************************)
(* The normalizers on their own: each applied to one argument.             *)
(***************************************************************************)
\* The longest run of digits before the decimal mark of a composed argument
MaxDigits == 2

\* The digit texts of at most n digits; with one digit after the decimal mark,
\* a 5, float() and the product with 1000 are exact
DigitTexts(n) == UNION {[1..k -> {"0", "1", "5"}] : k \in 1..n}

Arg(sign, whole, frac, gap, unit, per, tail) ==
    [sign |-> sign, whole |-> whole, frac |-> frac, gap |-> gap, unit |-> unit,
     per |-> per, tail |-> tail]

GigaUnits == {<<"g", "b", "i", "t">>, <<"g", "b">>, <<"G", "b", "i", "t">>, <<"G", "B">>}

MegaUnits == {<<"m", "b", "i", "t">>, <<"m", "b">>, <<"M", "b", "i", "t">>, <<"M", "B">>}

\* test_cases of test_data_validation: the argument and the expected value
speed_test_cases ==
    << <<Arg(<<>>, <<"1", "0", "0">>, <<>>, <<" ">>, <<"M", "b", "i", "t">>, <<"/", "s">>, <<>>), 100>>,
       <<Arg(<<>>, <<"1">>, <<>>, <<" ">>, <<"G", "b", "i", "t">>, <<"/", "s">>, <<>>), 1000>>,
       <<Arg(<<>>, <<"5", "0", "0">>, <<>>, <<" ">>, <<"m", "b">>, <<>>, <<>>), 500>>,
       <<Arg(<<>>, <<"2">>, <<>>, <<" ">>, <<"G", "B">>, <<>>, <<>>), 2000>>,
       <<Literal(<<"i", "n", "v", "a", "l", "i", "d">>), 0>> >>

\* price_cases of test_data_validation
price_cases ==
    << <<Arg(<<>>, <<"2", "9", "9">>, <<>>, <<" ">>, <<"k", "r">>, <<>>, <<>>), 299>>,
       <<Arg(<<>>, <<"3", "9", "9">>, <<>>, <<" ">>, <<"D", "K", "K">>, <<>>, <<>>), 399>>,
       <<Arg(<<>>, <<"1", "9", "9">>, <<",", "5", "0">>, <<>>, <<>>, <<>>, <<>>), 199>>,
       <<Literal(<<"i", "n", "v", "a", "l", "i", "d">>), 0>> >>

\* contract_cases of test_data_validation
contract_cases ==
    << <<Arg(<<>>, <<"1", "2">>, <<>>, <<" ">>, <<"m", "å", "n", "e", "d", "e", "r">>, <<>>, <<>>), 12>>,
       <<Arg(<<>>, <<"2">>, <<>>, <<" ">>, <<"å", "r">>, <<>>, <<>>), 24>>,
       <<Arg(<<>>, <<"6">>, <<>>, <<" ">>, <<"m", "d", "r">>, <<>>, <<>>), 6>>,
       <<Literal(<<"i", "n", "v", "a", "l", "i", "d">>), 0>> >>

\* The arguments of the cases of a test list
CaseArgs(cases) == {cases[i][1] : i \in 1..Len(cases)}

\* Speed texts: a number, with or without a sign, a unit in either case and
\* "/s", alone or followed by a second unit
SpeedArgs ==
    [sign : {<<>>, <<"-">>},
     whole : {<<>>} \cup DigitTexts(MaxDigits),
     frac : {<<>>, <<".", "5">>},
     gap : {<<>>, <<" ">>},
     unit : {<<>>} \cup GigaUnits \cup MegaUnits,
     per : {<<>>, <<"/", "s">>},
     tail : {<<>>, <<"m", "b">>, <<" ", "G", "B">>}]
    \cup CaseArgs(speed_test_cases)

\* Price texts: an amount with a decimal comma or point, and a currency marker
PriceArgs ==
    [sign : {<<>>, <<"-">>},
     whole : {<<>>} \cup DigitTexts(MaxDigits),
     frac : {<<>>, <<",", "5", "0">>, <<".", "5">>, <<".", "2", "9", "9">>},
     gap : {<<>>, <<" ">>},
     unit : {<<>>, <<"k", "r">>, <<"k", "r", ".">>, <<"d", "k", "k">>, <<"D", "K", "K">>},
     per : {<<>>},
     tail : {<<>>, <<",", "-">>}]
    \cup CaseArgs(price_cases)

\* Contract texts: a number and a unit of months or years
ContractArgs ==
    [sign : {<<>>},
     whole : {<<>>} \cup DigitTexts(MaxDigits),
     frac : {<<>>},
     gap : {<<>>, <<" ">>},
     unit : {<<>>, <<"m", "å", "n", "e", "d", "e", "r">>, <<"m", "å", "n", "e", "d">>,
             <<"m", "d", "r">>, <<"M", "D", "R">>, <<"å", "r">>, <<"Å", "R">>,
             <<"y", "e", "a", "r">>, <<"d", "a", "g", "e">>},
     per : {<<>>},
     tail : {<<>>, <<" ", "6", " ", "m", "d", "r">>}]
    \cup CaseArgs(contract_cases)

Args(f) ==
    IF f = "normalize_speed" THEN SpeedArgs
    ELSE IF f = "normalize_price" THEN PriceArgs ELSE ContractArgs

InitNorm ==
    /\ pipeline = "fiber"
    /\ scraper_type = "full"
    /\ force_update = FALSE
    /\ disk = NoFile
    /\ disk_copy = NoFile
    /\ pc = "norm"
    /\ existing_data = <<>>
    /\ all_plans = <<>>
    /\ idx = 1
    /\ successful_providers = 0
    /\ failed_providers = 0
    /\ last = "none"
    /\ invoked = <<>>
    /\ changes = NoChanges
    /\ saves = 0
    /\ clock = 1
    /\ result = "running"
    /\ rejected = FALSE
    /\ fn \in {"normalize_speed", "normalize_price", "normalize_contract_length"}
    /\ arg \in Args(fn)
    /\ ret = 0
    /\ packages = <<>>
    /\ capacity = MaxPlans

\* normalize_speed(plan.get('hastighed_mbit', ''))
call_normalize_speed ==
    /\ pc = "norm"
    /\ fn = "normalize_speed"
    /\ ret' = normalize_speed(ArgText(arg))
    /\ pc' = "normed"
    /\ UNCHANGED <<pipeline, scraper_type, force_update, disk, disk_copy,
                   existing_data, all_plans, idx, successful_providers,
                   failed_providers, last, invoked, changes, saves, clock, result,
                   rejected, fn, arg>>
    /\ UNCHANGED packages
    /\ UNCHANGED capacity

\* normalize_price(plan.get('pris_mdr', ''))
call_normalize_price ==
    /\ pc = "norm"
    /\ fn = "normalize_price"
    /\ ret' = normalize_price(ArgText(arg))
    /\ pc' = "normed"
    /\ UNCHANGED <<pipeline, scraper_type, force_update, disk, disk_copy,
                   existing_data, all_plans, idx, successful_providers,
                   failed_providers, last, invoked, changes, saves, clock, result,
                   rejected, fn, arg>>
    /\ UNCHANGED packages
    /\ UNCHANGED capacity

\* normalize_contract_length(plan.get('bindingstid_mdr', ''))
call_normalize_contract_length ==
    /\ pc = "norm"
    /\ fn = "normalize_contract_length"
    /\ ret' = normalize_contract_length(ArgText(arg))
    /\ pc' = "normed"
    /\ UNCHANGED <<pipeline, scraper_type, force_update, disk, disk_copy,
                   existing_data, all_plans, idx, successful_providers,
                   failed_providers, last, invoked, changes, saves, clock, result,
                   rejected, fn, arg>>
    /\ UNCHANGED packages
    /\ UNCHANGED capacity

NextNorm ==
    \/ call_normalize_speed
    \/ call_normalize_price
    \/ call_normalize_contract_length

SpecNorm == InitNorm /\ [][NextNorm]_vars

(***************************************************************************)
(* normalize_speed: sign, units, order of the unit checks.                 *)
(***************************************************************************)
\* normalize_speed has returned
SpeedReturned == pc = "normed" /\ fn = "normalize_speed"

\* 1000 times the number of the argument, cut to an integer
Thousandths(a) ==
    StrToInt(a.whole) * 1000
      + (IF a.frac = <<>> THEN 0
         ELSE (StrToInt(Tail(a.frac)) * 1000) \div Pow10(Len(a.frac) - 1))

\* The text holds a digit
HasDigit(t) == \E i \in 1..Len(t) : IsDigit(t[i])

\* C18: for every text, and for an absent or empty argument, normalize_speed
\* returns an integer that is not negative.
C18_SpeedIsNeverNegative == SpeedReturned => ret >= 0

BothMarkers(t) ==
    /\ Contains(Lower(t), <<"g", "b">>)
    /\ Contains(Lower(t), <<"m", "b">>)

\* C20: for a text with a number, a gigabit marker and a megabit marker,
\* normalize_speed returns 1000 times the number.
C20_GigabitWinsOverMegabit ==
    ( /\ SpeedReturned
      /\ BothMarkers(ArgText(arg))
      /\ arg.sign = <<>>
      /\ arg.whole # <<>> )
    => ret = Thousandths(arg)

(***************************************************************************)
(* normalize_price and normalize_contract_length.                          *)
(***************************************************************************)
PriceReturned == pc = "normed" /\ fn = "normalize_price"

ContractReturned == pc = "normed" /\ fn = "normalize_contract_length"

\* The units of months and of years among the units of the contract texts
MonthUnits ==
    {<<"m", "å", "n", "e", "d", "e", "r">>, <<"m", "å", "n", "e", "d">>,
     <<"m", "d", "r">>, <<"M", "D", "R">>}

YearUnits == {<<"å", "r">>, <<"Å", "R">>, <<"y", "e", "a", "r">>}

as_candidate(plan) ==
    [plan EXCEPT !.hastighed_mbit = IntToStr(@),
                 !.pris_mdr = IntToStr(@),
                 !.bindingstid_mdr = IntToStr(@)]

\* The loop body of scrape_all_providers applied to accepted plans
second_pass(plans, name) ==
    normalized_plans([i \in 1..Len(plans) |-> as_candidate(plans[i])], name)

\* C23: when the plans that scrape_all_providers returned go through its
\* normalization and validation once more, under whatever provider name, the
\* result is the same sequence of plans: none dropped, no value changed.
C23_ValidationIsIdempotent ==
    pipeline = "fiber" /\ AggregatorReturned =>
        \A name \in {PROVIDERS[1].name, OtherName} :
            second_pass(all_plans, name) = all_plans

\* The fiber aggregator has returned two plans, one of them built from texts
\* ('1 Gbit/s', '199,50', '2 år'), after rejecting a candidate
C23_Witness ==
    /\ pipeline = "fiber"
    /\ AggregatorReturned
    /\ rejected
    /\ Len(all_plans) = 2
    /\ \E i \in 1..2 : all_plans[i].udbyder = OtherName /\ all_plans[i].bindingstid_mdr = 24

(***************************************************************************)
(* The format of the snapshot files.                                       *)
(***************************************************************************)
\* The file is a document with the four fields, its plan count and its provider
\* names agreeing with its plans
IsSnapshotDocument(file) ==
    /\ file.kind = "document"
    /\ {"last_updated", "total_plans", "providers", "plans"} \subseteq DOMAIN file
    /\ file.total_plans = Len(file.plans)
    /\ \A n \in file.providers : \E i \in 1..Len(file.plans) : file.plans[i].udbyder = n
    /\ \A i \in 1..Len(file.plans) : file.plans[i].udbyder \in file.providers

\* C24 as stated: the snapshot file that a run of any of the three scripts has
\* written is a document with last_updated, total_plans, providers and plans,
\* total_plans being the number of plans and providers the set of the provider
\* names of the plans.
C24_EverySnapshotIsDocument ==
    pc = "done" /\ result = "returned" /\ saves > 0 => IsSnapshotDocument(disk)

\* C24 amended: every file the fiber script writes is such a document; the
\* files of the TV and mobile scripts are the bare record list, which is what
\* their load_existing_data reads back.
C24_FiberSnapshotIsDocument ==
    /\ pipeline = "fiber" =>
          \A file \in {disk, disk_copy} :
              file.kind \in {"list", "document"} => IsSnapshotDocument(file)
    /\ pipeline # "fiber" =>
          /\ disk.kind # "document"
          /\ pc = "done" /\ result = "returned" /\ saves > 0 =>
                disk.kind = "list" /\ DOMAIN disk = {"kind", "plans"}
                  /\ load_existing_data(disk) = all_plans

\* The fiber script has written both files with two plans of one provider
C24_Witness ==
    /\ pipeline = "fiber"
    /\ pc = "done"
    /\ result = "returned"
    /\ IsSnapshotDocument(disk)
    /\ IsSnapshotDocument(disk_copy)
    /\ disk.total_plans = 2
    /\ Cardinality(disk.providers) = 1

(***************************************************************************)
(* C25: order of the producer calls and of the aggregated result.          *)
(***************************************************************************)
\* The names of the enabled providers, in configured order
EnabledNames(p) ==
    LET sel == SelectSeq(Providers(p), LAMBDA d : d.enabled)
    IN [j \in 1..Len(sel) |-> sel[j].name]

\* What a step has added at the end of the result
Appended == SubSeq(all_plans', Len(all_plans) + 1, Len(all_plans'))

\* A normalized plan if it passes the validation, nothing otherwise
Keep(np) == IF valid_plan(np) THEN <<np>> ELSE <<>>

\* The plans of a returned batch that survive, taken first to last
RECURSIVE Surviving(_, _)
Surviving(batch, name) ==
    IF batch = <<>> THEN <<>>
    ELSE Keep(normalized_plan(Head(batch), name)) \o Surviving(Tail(batch), name)

\* The step has added the surviving records of the returned batch, in the
\* order of the batch
AppendedInProducerOrder ==
    IF pipeline = "fiber"
    THEN Appended = Surviving(packages', Current.name)
    ELSE /\ Len(Appended) = Len(packages')
         /\ \A k \in 1..Len(Appended) :
               /\ Appended[k].provider = Current.name
               /\ \A f \in DOMAIN packages'[k] : Appended[k][f] = packages'[k][f]

\* C25: producers are called one at a time in configured order, an enabled
\* provider at most once per run and a disabled one never (the names called
\* are the enabled names in configured order, some left out); every step
\* leaves the records already collected in place and only a producer call adds
\* records, at the end: the surviving records of what the producer of the
\* current provider returned, in the order it returned them.
C25_ResultIsConcatenationInConfiguredOrder ==
    /\ [](invoked = SelectSeq(EnabledNames(pipeline),
                              LAMBDA n : \E i \in 1..Len(invoked) : invoked[i] = n))
    /\ [][/\ Len(all_plans') >= Len(all_plans)
          /\ SubSeq(all_plans', 1, Len(all_plans)) = all_plans
          /\ invoked' # invoked =>
                /\ InLoop
                /\ invoked' = Append(invoked, Current.name)
                /\ idx' > idx
                /\ AppendedInProducerOrder
          /\ (all_plans' # all_plans => invoked' # invoked)]_vars

\* The fiber aggregator has passed the disabled providers and holds two
\* different plans, the latest call having returned both
C25_Witness ==
    /\ pipeline = "fiber"
    /\ AggregatorDone
    /\ Len(invoked) > 1
    /\ Len(packages) = 2
    /\ Len(all_plans) = 2
    /\ all_plans[1] # all_plans[2]
    /\ \E j \in 1..Len(PROVIDERS) : ~PROVIDERS[j].enabled

(***************************************************************************)
(* C26: termination.  The scripts are sequential programs: the interpreter *)
(* always takes the next step, and a producer call is assumed to return or *)
(* raise, so a step that can be taken is taken.                            *)
(***************************************************************************)
\* The records the sites hold between them in the runs followed to their end
MaxLivePlans == 1

\* A run as main starts it
InitLive ==
    /\ pipeline \in {"fiber", "tv", "mobil"}
    /\ scraper_type \in (IF pipeline = "fiber" THEN {"full"} ELSE {"full", "light"})
    /\ force_update \in (IF pipeline = "fiber" THEN {FALSE} ELSE BOOLEAN)
    /\ disk \in InitialFiles(pipeline)
    /\ disk_copy = NoFile
    /\ pc = IF pipeline = "fiber" THEN "scrape" ELSE "start"
    /\ existing_data = <<>>
    /\ all_plans = <<>>
    /\ idx = 1
    /\ successful_providers = 0
    /\ failed_providers = 0
    /\ last = "none"
    /\ invoked = <<>>
    /\ changes = NoChanges
    /\ saves = 0
    /\ clock = 1
    /\ result = "running"
    /\ rejected = FALSE
    /\ fn = "none"
    /\ arg = NoArg
    /\ ret = 0
    /\ packages = <<>>
    /\ capacity = MaxLivePlans

SpecLive == InitLive /\ [][Next]_vars /\ WF_vars(Next)

\* C26: every run ends, and when it has ended the aggregator has called every
\* enabled provider that the mode selects exactly once, in one full pass over
\* the configured list, whichever producers raised or returned nothing.
C26_RunTerminatesAfterFullPass ==
    /\ <>(pc = "done")
    /\ [](pc = "done" =>
             /\ idx = Len(Providers(pipeline)) + 1
             /\ invoked = ExpectedInvocations(pipeline, scraper_type))

\* A run has ended although a producer failed on the way
C26_Witness ==
    /\ pc = "done"
    /\ result = "returned"
    /\ pipeline # "fiber"
    /\ failed_providers > 0
    /\ successful_providers > 0

(***************************************************************************)
(* C27: what the change detector does not look at.                         *)
(***************************************************************************)
\* A record of one snapshot and a record of the other that share a key have the
\* same price and the same promotion
KeysAgreeAcross(p, old_data, new_data) ==
    \A i \in 1..Len(old_data), j \in 1..Len(new_data) :
        lookup_key(p, old_data[i]) = lookup_key(p, new_data[j]) =>
            /\ ~GetDiffers(old_data[i], new_data[j], "pris_mdr")
            /\ ~GetDiffers(old_data[i], new_data[j], "kampagne")

\* C27: when two snapshots have the same keys and their records agree in price
\* and promotion key by key, all five counts of the change detector are zero,
\* whatever the other fields of the records are, and a run without the force
\* flag does not ask for a save.
C27_DiffIsShallow ==
    ( /\ pc = "diffed"
      /\ SnapshotKeys(pipeline, existing_data) = SnapshotKeys(pipeline, all_plans)
      /\ KeysAgreeAcross(pipeline, existing_data, all_plans) )
    => /\ changes = NoChanges
       /\ ~save_wanted(changes, FALSE)

\* The detector has compared two snapshots of one record each, of the same key,
\* price and promotion, that differ in another field, and counted nothing
C27_Witness ==
    /\ pc = "diffed"
    /\ Len(existing_data) = 1
    /\ Len(all_plans) = 1
    /\ lookup_key(pipeline, existing_data[1]) = lookup_key(pipeline, all_plans[1])
    /\ KeysAgreeAcross(pipeline, existing_data, all_plans)
    /\ existing_data[1] # all_plans[1]
    /\ changes = NoChanges

(***************************************************************************)
(* C28: the two provider counters of the TV and mobile aggregators.        *)
(***************************************************************************)
\* C28: in the TV and mobile aggregators the two counters add up to the number
\* of producers called, at the end of the pass as at any time in it; a call
\* that raises or returns nothing adds one to failed_providers and leaves the
\* result alone, a call that returns records adds one to successful_providers
\* and extends the result, and a step that calls no producer changes neither
\* counter.
C28_CountersAddUpToInvoked ==
    /\ [](pipeline # "fiber" => successful_providers + failed_providers = Len(invoked))
    /\ [][pipeline # "fiber" =>
            IF invoked' = invoked
            THEN /\ successful_providers' = successful_providers
                 /\ failed_providers' = failed_providers
            ELSE IF last' \in {"raised", "empty"}
            THEN /\ packages' = <<>>
                 /\ failed_providers' = failed_providers + 1
                 /\ successful_providers' = successful_providers
                 /\ all_plans' = all_plans
            ELSE /\ packages' # <<>>
                 /\ successful_providers' = successful_providers + 1
                 /\ failed_providers' = failed_providers
                 /\ Len(all_plans') = Len(all_plans) + Len(packages')]_vars

\* A light pass of the mobile aggregator is over: it skipped providers, and of
\* those it called one returned records and several failed
C28_Witness ==
    /\ pipeline = "mobil"
    /\ scraper_type = "light"
    /\ AggregatorDone
    /\ successful_providers = 1
    /\ failed_providers > 1
    /\ successful_providers + failed_providers = Len(invoked)
    /\ Len(invoked) < Len(MOBILE_PROVIDERS)

(***************************************************************************)
(* C29, C30: the key of the change detector.                               *)
(***************************************************************************)
\* The records of a snapshot
RecordsOf(data) == {data[i] : i \in 1..Len(data)}

Triple(p, rec) == <<rec.udbyder, Discriminant(p, rec), rec.pris_mdr>>

\* C30: two records with different (provider, discriminant, price) never get
\* the same key, so the lookup of a snapshot holds one entry for each offer in
\* it and an offer of one snapshot is found in the other only under its own
\* triple.
C30_KeyIsInjective ==
    pc = "diffed" =>
        /\ \A r1, r2 \in RecordsOf(existing_data) \cup RecordsOf(all_plans) :
              Triple(pipeline, r1) # Triple(pipeline, r2) =>
                  lookup_key(pipeline, r1) # lookup_key(pipeline, r2)
        /\ \A data \in {existing_data, all_plans} :
              Cardinality(DOMAIN build_lookup(pipeline, data))
                = Cardinality({Triple(pipeline, r) : r \in RecordsOf(data)})

====
